---- MODULE Spec2Model ----
(***************************************************************************)
(* CanaryFS (src/canaryfs.py): an in-memory filesystem whose every         *)
(* operation first passes an authorization check (_check_and_prompt) and   *)
(* then reads or mutates the node store (files, Node objects, used).       *)
(*                                                                         *)
(* A path is the sequence of its segments: <<>> is "/", <<"a","b">> is     *)
(* "/a/b".  Node objects live in a heap keyed by object identity; the path *)
(* map `files` and every directory's `children` hold identities, so that   *)
(* two references to one Node are one object, as in the program.           *)
(* Not modelled: timestamps, mode bits, uid/gid and the fd counter (no     *)
(* handler branches on them).                                              *)
(***************************************************************************)
EXTENDS Integers, Sequences, FiniteSets, TLC

VARIABLES
    files,             \* self.files : path -> Node identity
    heap,              \* the live Node objects : identity -> Node fields
    used,              \* self.used
    capacity,          \* self.capacity
    ask,               \* self.ask
    ask_scope,         \* self.ask_scope : "op" or "path"
    global_allow_all,  \* self.global_allow_all
    allow_rules,       \* self.allow_rules : rule key -> Rule
    now,               \* the clock read by now_ts()
    last,              \* the last invocation: arguments, checks made, outcome
    budget             \* invocations the run may still make: <<n>>, or <<>> for no limit

vars == <<files, heap, used, capacity, ask, ask_scope, global_allow_all,
          allow_rules, now, last, budget>>

(***************************************************************************)
(* Bounds of the model.                                                    *)
(***************************************************************************)
MaxNodes == 4      \* Node objects alive at once
MaxCalls == 6      \* invocations in one run of SpecTree
MaxNlink == 4      \* link counts explored: 0..MaxNlink
MaxTime == 2       \* clock values explored: 0..MaxTime

BLOCK_SIZE == 4096
None == -1         \* Optional[...] = None in Rule

Root == <<>>
Ids == 1..MaxNodes

(***************************************************************************)
(* dict operations                                                         *)
(***************************************************************************)
Put(d, k, v) == [x \in (DOMAIN d) \cup {k} |-> IF x = k THEN v ELSE d[x]]

Del(d, k) == [x \in (DOMAIN d) \ {k} |-> d[x]]

Range(d) == {d[x] : x \in DOMAIN d}

EmptyDict == [x \in {} |-> 0]

Max(a, b) == IF a >= b THEN a ELSE b

(***************************************************************************)
(* Node: a fresh object as Node.__init__ leaves it.                        *)
(***************************************************************************)
Node(isdir) ==
    [is_dir |-> isdir, nlink |-> IF isdir THEN 2 ELSE 1, size |-> 0,
     children |-> EmptyDict, data |-> <<>>]

\* The identity given to the next Node(): the least one no live object has.
NewId == CHOOSE i \in Ids : i \notin DOMAIN heap /\ \A j \in 1..(i - 1) : j \in DOMAIN heap

CanAlloc == \E i \in Ids : i \notin DOMAIN heap

\* Objects reachable from the path map through children: the ones Python keeps.
RECURSIVE Reach(_, _, _)
Reach(h, seen, n) ==
    IF n = 0 THEN seen
    ELSE LET more == UNION {Range(h[i].children) : i \in seen}
         IN IF more \subseteq seen THEN seen ELSE Reach(h, seen \cup more, n - 1)

Collect(f, h) == LET keep == Reach(h, Range(f), MaxNodes + 1)
                 IN [i \in keep |-> h[i]]

(***************************************************************************)
(* helpers of CanaryFS                                                     *)
(***************************************************************************)
\* os.path.split on a normalized absolute path: "/" -> ("/", "").
split(path) ==
    IF path = Root THEN [parent |-> Root, name |-> ""]
    ELSE [parent |-> SubSeq(path, 1, Len(path) - 1), name |-> path[Len(path)]]

\* _get: the node, or ENOENT.
get(f, path) ==
    IF path \in DOMAIN f THEN [err |-> "OK", node |-> f[path]]
    ELSE [err |-> "ENOENT", node |-> 0]

\* _ensure_parent: (parent node, name), or ENOENT / ENOTDIR.
ensure_parent(f, h, path) ==
    LET sp == split(path)
        g == get(f, sp.parent)
    IN IF g.err # "OK" THEN [err |-> g.err, node |-> 0, name |-> sp.name]
       ELSE IF ~h[g.node].is_dir THEN [err |-> "ENOTDIR", node |-> 0, name |-> sp.name]
       ELSE [err |-> "OK", node |-> g.node, name |-> sp.name]

\* Mutant: the capacity check off by one (>= for >).
ensure_space_delta_off_by_one(u, delta) ==
    IF delta <= 0 THEN FALSE ELSE u + delta >= capacity

\* _ensure_space_delta: TRUE when it raises ENOSPC.
ensure_space_delta(u, delta) ==
    IF delta <= 0 THEN FALSE ELSE u + delta > capacity

\* Mutant: the scope is ignored, every rule is keyed by path alone.
rule_key_any_op(op, path) == <<"*", path>>

\* _rule_key
rule_key(op, path) == IF ask_scope = "path" THEN <<"*", path>> ELSE <<op, path>>

(***************************************************************************)
(* Rule                                                                    *)
(***************************************************************************)
Rule(e, r) == [expires_at |-> e, remaining |-> r]

\* Mutant: a timed rule is already invalid at its expiry instant.
allowed_before_expiry(rule) ==
    IF rule.expires_at # None THEN now < rule.expires_at
    ELSE IF rule.remaining # None THEN rule.remaining > 0
    ELSE TRUE

allowed(rule) ==
    IF rule.expires_at # None THEN now <= rule.expires_at
    ELSE IF rule.remaining # None THEN rule.remaining > 0
    ELSE TRUE

\* Mutant: a counted rule is never decremented.
consume_unchanged(rule) == rule

consume(rule) ==
    IF rule.remaining # None /\ rule.remaining > 0
    THEN [rule EXCEPT !.remaining = @ - 1]
    ELSE rule

(***************************************************************************)
(* The prompt's answer: a line of characters, parsed as the code does.     *)
(***************************************************************************)
AsciiDigits == {"0", "1", "2", "3", "4", "5", "6", "7", "8", "9"}

\* str.isdigit is also true of digits int() rejects, such as a superscript.
OtherDigits == {"^2"}

DigitVal(c) ==
    CASE c = "0" -> 0 [] c = "1" -> 1 [] c = "2" -> 2 [] c = "3" -> 3 [] c = "4" -> 4
      [] c = "5" -> 5 [] c = "6" -> 6 [] c = "7" -> 7 [] c = "8" -> 8 [] c = "9" -> 9

RECURSIVE strip(_)
strip(s) ==
    IF s = <<>> THEN s
    ELSE IF Head(s) = " " THEN strip(Tail(s))
    ELSE IF s[Len(s)] = " " THEN strip(SubSeq(s, 1, Len(s) - 1))
    ELSE s

LowerChar(c) ==
    CASE c = "Y" -> "y" [] c = "N" -> "n" [] c = "A" -> "a" [] c = "S" -> "s"
      [] c = "X" -> "x" [] OTHER -> c

lower(s) == [i \in 1..Len(s) |-> LowerChar(s[i])]

isdigit(s) == s # <<>> /\ \A i \in 1..Len(s) : s[i] \in AsciiDigits \cup OtherDigits

\* int(): defined on ASCII digits; raises ValueError otherwise.
int_ok(s) == \A i \in 1..Len(s) : s[i] \in AsciiDigits

RECURSIVE int(_)
int(s) == IF s = <<>> THEN 0 ELSE 10 * int(SubSeq(s, 1, Len(s) - 1)) + DigitVal(s[Len(s)])

endswith_s(s) == s # <<>> /\ s[Len(s)] = "s"

butlast(s) == SubSeq(s, 1, Len(s) - 1)

(***************************************************************************)
(* _check_and_prompt.  The engine record threads what the check reads and  *)
(* writes: the rule table, the allow-all flag, the lines left on stdin,    *)
(* the log, one record per check made, and the verdict ("allow", or the    *)
(* exception raised).                                                      *)
(***************************************************************************)
Engine(input) ==
    [rules |-> allow_rules, allow_all |-> global_allow_all, input |-> input,
     log |-> <<>>, checks |-> <<>>, res |-> "allow"]

\* What one check did: the key it maps to, whether the table was consulted,
\* whether a rule was found and was valid, the number of input() calls, whether
\* stdin was at end of file, the deciding answer as typed, the verdict, and the
\* key's entry in the table when the check returns or raises.
\* allow_rules.get(key), as a set: empty when the key has no rule.
entry(rules, key) == IF key \in DOMAIN rules THEN {rules[key]} ELSE {}

CheckRec(op, path, lookup, found, valid, prompts, eof, ans, res, rules) ==
    [op |-> op, path |-> path, key |-> rule_key(op, path), lookup |-> lookup,
     found |-> found, valid |-> valid, prompts |-> prompts, eof |-> eof,
     ans |-> ans, res |-> res, after |-> entry(rules, rule_key(op, path))]

\* One answer, already stripped: what the loop body does with it.
\* "retry" stands for falling through to the usage reminder.
answer(ans) ==
    IF ans = <<>> \/ lower(ans) = <<"y">> THEN [act |-> "once", n |-> 0]
    ELSE IF lower(ans) = <<"a">> THEN [act |-> "all", n |-> 0]
    ELSE IF lower(ans) = <<"n">> THEN [act |-> "deny", n |-> 0]
    ELSE IF endswith_s(ans) /\ isdigit(butlast(ans))
         THEN IF int_ok(butlast(ans)) THEN [act |-> "seconds", n |-> int(butlast(ans))]
              ELSE [act |-> "ValueError", n |-> 0]
    ELSE IF isdigit(ans)
         THEN IF int_ok(ans) THEN [act |-> "count", n |-> int(ans)]
              ELSE [act |-> "ValueError", n |-> 0]
    ELSE [act |-> "retry", n |-> 0]

\* Mutant: end of file on stdin reads as the answer y.
eof_answer_yes == <<"y">>

\* except EOFError: ans = 'n'
eof_answer == <<"n">>

\* The while True loop: read a line (EOFError reads as "n"), act on it.
RECURSIVE prompt_loop(_, _, _, _, _, _, _)
prompt_loop(e, op, path, rules, input, found, n) ==
    LET key == rule_key(op, path)
        eof == input = <<>>
        raw == IF eof THEN eof_answer ELSE Head(input)
        ans == strip(raw)
        rest == IF eof THEN <<>> ELSE Tail(input)
        a == answer(ans)
        done(rs, all, res) ==
            [e EXCEPT !.rules = rs, !.allow_all = all, !.input = rest, !.res = res,
                      !.checks = Append(@, CheckRec(op, path, TRUE, found, FALSE,
                                                    n + 1, eof, raw, res, rs))]
    IN CASE a.act = "once" -> done(rules, e.allow_all, "allow")
         [] a.act = "all" -> done(rules, TRUE, "allow")
         [] a.act = "deny" -> done(rules, e.allow_all, "EACCES")
         [] a.act = "seconds" -> done(Put(rules, key, Rule(now + a.n, None)), e.allow_all, "allow")
         [] a.act = "count" -> done(Put(rules, key, Rule(None, a.n)), e.allow_all, "allow")
         [] a.act = "ValueError" -> done(rules, e.allow_all, "ValueError")
         [] OTHER -> prompt_loop(e, op, path, rules, rest, found, n + 1)

\* Mutant: the allow-all flag does not short-circuit the check.
check_and_prompt_always_asks(e0, op, path) ==
    LET e == [e0 EXCEPT !.log = Append(@, <<op, path>>)]
        key == rule_key(op, path)
    IN IF ~ask
       THEN [e EXCEPT !.checks = Append(@, CheckRec(op, path, FALSE, FALSE, FALSE,
                                                    0, FALSE, <<>>, "allow", e.rules))]
       ELSE IF key \in DOMAIN e.rules /\ allowed(e.rules[key])
       THEN [e EXCEPT !.rules[key] = consume(@),
                      !.checks = Append(@, CheckRec(op, path, TRUE, TRUE, TRUE,
                                                    0, FALSE, <<>>, "allow",
                                                    key :> consume(e.rules[key])))]
       ELSE prompt_loop(e, op, path, Del(e.rules, key), e.input,
                        key \in DOMAIN e.rules, 0)

\* Mutant: the check goes to the rule table and the prompt although
\* prompting is disabled.
check_and_prompt_ignores_ask(e0, op, path) ==
    LET e == [e0 EXCEPT !.log = Append(@, <<op, path>>)]
        key == rule_key(op, path)
    IN IF e.allow_all
       THEN [e EXCEPT !.checks = Append(@, CheckRec(op, path, FALSE, FALSE, FALSE,
                                                    0, FALSE, <<>>, "allow", e.rules))]
       ELSE IF key \in DOMAIN e.rules /\ allowed(e.rules[key])
       THEN [e EXCEPT !.rules[key] = consume(@),
                      !.checks = Append(@, CheckRec(op, path, TRUE, TRUE, TRUE,
                                                    0, FALSE, <<>>, "allow",
                                                    key :> consume(e.rules[key])))]
       ELSE prompt_loop(e, op, path, Del(e.rules, key), e.input,
                        key \in DOMAIN e.rules, 0)

check_and_prompt(e0, op, path) ==
    LET e == [e0 EXCEPT !.log = Append(@, <<op, path>>)]
        key == rule_key(op, path)
    IN IF ~ask \/ e.allow_all
       THEN [e EXCEPT !.checks = Append(@, CheckRec(op, path, FALSE, FALSE, FALSE,
                                                    0, FALSE, <<>>, "allow", e.rules))]
       ELSE IF key \in DOMAIN e.rules /\ allowed(e.rules[key])
       THEN [e EXCEPT !.rules[key] = consume(@),
                      !.checks = Append(@, CheckRec(op, path, TRUE, TRUE, TRUE,
                                                    0, FALSE, <<>>, "allow",
                                                    key :> consume(e.rules[key])))]
       ELSE prompt_loop(e, op, path, Del(e.rules, key), e.input,
                        key \in DOMAIN e.rules, 0)

(***************************************************************************)
(* The node-store part of each handler, after its check.  A result is the  *)
(* store the handler leaves (also when it raises half way), the errno or   *)
(* exception ("OK" when it returns) and the value returned.                *)
(***************************************************************************)
Res(f, h, u, err, ret) == [files |-> f, heap |-> h, used |-> u, err |-> err, ret |-> ret]

Fail(err) == Res(files, heap, used, err, <<>>)

\* bytes(data[a:b]) for 0 <= a <= b
Slice(d, a, b) ==
    LET hi == IF b < Len(d) THEN b ELSE Len(d)
    IN IF a >= hi THEN <<>> ELSE SubSeq(d, a + 1, hi)

\* data[a:b] = x for 0 <= a <= b
SliceAssign(d, a, b, x) ==
    LET lo == IF a < Len(d) THEN a ELSE Len(d)
        hi == IF b < Len(d) THEN b ELSE Len(d)
    IN SubSeq(d, 1, lo) \o x \o SubSeq(d, hi + 1, Len(d))

Zeros(n) == [i \in 1..n |-> 0]

\* access, open, utimens, chmod, chown: _get(path), then fields not modelled.
lookup_store(path) ==
    LET g == get(files, path)
    IN IF g.err # "OK" THEN Fail(g.err) ELSE Res(files, heap, used, "OK", <<>>)

getattr_store(path) ==
    LET g == get(files, path)
    IN IF g.err # "OK" THEN Fail(g.err)
       ELSE Res(files, heap, used, "OK", <<heap[g.node].nlink, heap[g.node].size>>)

\* The entry list returned is not modelled.
readdir_store(path) ==
    LET g == get(files, path)
    IN IF g.err # "OK" THEN Fail(g.err)
       ELSE IF ~heap[g.node].is_dir THEN Fail("ENOTDIR")
       ELSE Res(files, heap, used, "OK", <<>>)

\* mkdir and create differ in the kind of Node and in the parent's nlink.
\* "BOUND": the model has no identity left for the new object.
make_store(path, isdir) ==
    LET pp == ensure_parent(files, heap, path)
    IN IF pp.err # "OK" THEN Fail(pp.err)
       ELSE IF pp.name \in DOMAIN heap[pp.node].children THEN Fail("EEXIST")
       ELSE IF ~CanAlloc THEN Fail("BOUND")
       ELSE LET id == NewId
                h1 == [i \in (DOMAIN heap) \cup {id} |->
                          IF i = id THEN Node(isdir) ELSE heap[i]]
                h2 == [h1 EXCEPT ![pp.node].children = Put(@, pp.name, id)]
                f2 == Put(files, path, id)
                h3 == IF isdir THEN [h2 EXCEPT ![pp.node].nlink = @ + 1] ELSE h2
            IN Res(f2, h3, used, "OK", <<>>)

mkdir_store(path) == make_store(path, TRUE)

create_store(path) == make_store(path, FALSE)

rmdir_store(path) ==
    LET g == get(files, path)
    IN IF g.err # "OK" THEN Fail(g.err)
       ELSE IF ~heap[g.node].is_dir THEN Fail("ENOTDIR")
       ELSE IF DOMAIN heap[g.node].children # {} THEN Fail("ENOTEMPTY")
       ELSE LET pp == ensure_parent(files, heap, path)
            IN IF pp.err # "OK" THEN Fail(pp.err)
               ELSE IF pp.name \notin DOMAIN heap[pp.node].children THEN Fail("KeyError")
               ELSE LET h1 == [heap EXCEPT ![pp.node].children = Del(@, pp.name)]
                        f1 == Del(files, path)
                        h2 == [h1 EXCEPT ![pp.node].nlink = @ - 1]
                    IN Res(f1, h2, used, "OK", <<>>)

unlink_store(path) ==
    LET g == get(files, path)
    IN IF g.err # "OK" THEN Fail(g.err)
       ELSE IF heap[g.node].is_dir THEN Fail("EISDIR")
       ELSE LET pp == ensure_parent(files, heap, path)
            IN IF pp.err # "OK" THEN Fail(pp.err)
               ELSE IF pp.name \notin DOMAIN heap[pp.node].children THEN Fail("KeyError")
               ELSE LET h1 == [heap EXCEPT ![pp.node].children = Del(@, pp.name)]
                        f1 == Del(files, path)
                    IN Res(f1, h1, used - heap[g.node].size, "OK", <<>>)

\* The part of rename after the target, if any, was unlinked: lines 254-257.
rename_move(f, h, u, old, new, node, op, np) ==
    IF op.name \notin DOMAIN h[op.node].children THEN Res(f, h, u, "KeyError", <<>>)
    ELSE LET h1 == [h EXCEPT ![op.node].children = Del(@, op.name)]
             h2 == [h1 EXCEPT ![np.node].children = Put(@, np.name, node)]
         IN IF old \notin DOMAIN f THEN Res(f, h2, u, "KeyError", <<>>)
            ELSE Res(Put(Del(f, old), new, node), h2, u, "OK", <<>>)

rename_store(old, new) ==
    LET g == get(files, old)
        op == ensure_parent(files, heap, old)
        np == ensure_parent(files, heap, new)
    IN IF g.err # "OK" THEN Fail(g.err)
       ELSE IF op.err # "OK" THEN Fail(op.err)
       ELSE IF np.err # "OK" THEN Fail(np.err)
       ELSE IF np.name \in DOMAIN heap[np.node].children
       THEN LET target == heap[np.node].children[np.name]
                h1 == [heap EXCEPT ![np.node].children = Del(@, np.name)]
            IN IF heap[target].is_dir THEN Fail("EISDIR")
               ELSE IF new \notin DOMAIN files THEN Res(files, h1, used, "KeyError", <<>>)
               ELSE rename_move(Del(files, new), h1, used - heap[target].size,
                                old, new, g.node, op, np)
       ELSE rename_move(files, heap, used, old, new, g.node, op, np)

\* read on the store (f, h): the errno and the bytes returned.
read_from(f, h, path, size, offset) ==
    LET g == get(f, path)
    IN IF g.err # "OK" THEN [err |-> g.err, ret |-> <<>>]
       ELSE IF h[g.node].is_dir THEN [err |-> "EISDIR", ret |-> <<>>]
       ELSE [err |-> "OK", ret |-> Slice(h[g.node].data, offset, offset + size)]

read_store(path, size, offset) ==
    LET r == read_from(files, heap, path, size, offset)
    IN Res(files, heap, used, r.err, r.ret)

write_store(path, data, offset) ==
    LET g == get(files, path)
    IN IF g.err # "OK" THEN Fail(g.err)
       ELSE IF heap[g.node].is_dir THEN Fail("EISDIR")
       ELSE LET node == heap[g.node]
                endpos == offset + Len(data)
                prev_size == node.size
                new_size == Max(prev_size, endpos)
                delta == new_size - prev_size
                d1 == IF new_size > Len(node.data)
                      THEN node.data \o Zeros(new_size - Len(node.data))
                      ELSE node.data
                d2 == SliceAssign(d1, offset, endpos, data)
            IN IF ensure_space_delta(used, delta) THEN Fail("ENOSPC")
               ELSE Res(files, [heap EXCEPT ![g.node].data = d2, ![g.node].size = new_size],
                        used + delta, "OK", <<Len(data)>>)

\* Mutant: shrinking sets the size and leaves the buffer uncut.
truncate_store_uncut(path, length) ==
    LET g == get(files, path)
    IN IF g.err # "OK" THEN Fail(g.err)
       ELSE IF heap[g.node].is_dir THEN Fail("EISDIR")
       ELSE LET node == heap[g.node]
            IN IF length < node.size
               THEN Res(files, [heap EXCEPT ![g.node].size = length],
                        used - (node.size - length), "OK", <<>>)
               ELSE IF length > node.size
               THEN IF ensure_space_delta(used, length - node.size) THEN Fail("ENOSPC")
                    ELSE Res(files, [heap EXCEPT ![g.node].data = @ \o Zeros(length - node.size),
                                                 ![g.node].size = length],
                             used + (length - node.size), "OK", <<>>)
               ELSE Res(files, heap, used, "OK", <<>>)

truncate_store(path, length) ==
    LET g == get(files, path)
    IN IF g.err # "OK" THEN Fail(g.err)
       ELSE IF heap[g.node].is_dir THEN Fail("EISDIR")
       ELSE LET node == heap[g.node]
            IN IF length < node.size
               THEN Res(files, [heap EXCEPT ![g.node].data = SubSeq(node.data, 1, length),
                                            ![g.node].size = length],
                        used - (node.size - length), "OK", <<>>)
               ELSE IF length > node.size
               THEN IF ensure_space_delta(used, length - node.size) THEN Fail("ENOSPC")
                    ELSE Res(files, [heap EXCEPT ![g.node].data = @ \o Zeros(length - node.size),
                                                 ![g.node].size = length],
                             used + (length - node.size), "OK", <<>>)
               ELSE Res(files, heap, used, "OK", <<>>)

statfs_store ==
    Res(files, heap, used, "OK",
        <<BLOCK_SIZE, capacity \div BLOCK_SIZE, (capacity - used) \div BLOCK_SIZE>>)

(***************************************************************************)
(* The handlers.  `input` is what stdin holds for this invocation: the     *)
(* lines the prompt can read, then end of file.  e is the rule engine      *)
(* after the handler's checks, r the node store after its body.            *)
(***************************************************************************)
LastRec(op, path, new, offset, size, data, e, r) ==
    [op |-> op, path |-> path, new |-> new, offset |-> offset, size |-> size,
     data |-> data, err |-> r.err, ret |-> r.ret, checks |-> e.checks, log |-> e.log]

\* The state a handler leaves: rule engine, node store, and the record of the call.
Finish(op, path, new, offset, size, data, e, r) ==
    /\ r.err # "BOUND"
    /\ budget' = IF budget = <<>> THEN <<>> ELSE <<budget[1] - 1>>
    /\ \A i \in DOMAIN r.heap : r.heap[i].nlink \in 0..MaxNlink
    /\ allow_rules' = e.rules
    /\ global_allow_all' = e.allow_all
    /\ files' = r.files
    /\ heap' = Collect(r.files, r.heap)
    /\ used' = r.used
    /\ last' = LastRec(op, path, new, offset, size, data, e, r)
    /\ UNCHANGED <<capacity, ask, ask_scope, now>>

\* The run may make another invocation.
Callable == budget # <<0>>

\* A handler that makes one check and then runs `r`, its node-store part.
Checked(op, path, input) == check_and_prompt(Engine(input), op, path)

access(path, input) ==
    /\ Callable
    /\ \E e \in {Checked("access", path, input)} :
       \E r \in {IF e.res = "allow" THEN lookup_store(path) ELSE Fail(e.res)} :
          Finish("access", path, path, 0, 0, <<>>, e, r)

getattr(path, input) ==
    /\ Callable
    /\ \E e \in {Checked("getattr", path, input)} :
       \E r \in {IF e.res = "allow" THEN getattr_store(path) ELSE Fail(e.res)} :
          Finish("getattr", path, path, 0, 0, <<>>, e, r)

readdir(path, input) ==
    /\ Callable
    /\ \E e \in {Checked("readdir", path, input)} :
       \E r \in {IF e.res = "allow" THEN readdir_store(path) ELSE Fail(e.res)} :
          Finish("readdir", path, path, 0, 0, <<>>, e, r)

mkdir(path, input) ==
    /\ Callable
    /\ \E e \in {Checked("mkdir", path, input)} :
       \E r \in {IF e.res = "allow" THEN mkdir_store(path) ELSE Fail(e.res)} :
          Finish("mkdir", path, path, 0, 0, <<>>, e, r)

\* Mutant: a failure in the node store gives the consumed allowance back.
rmdir_refunds(path, input) ==
    /\ Callable
    /\ \E e1 \in {Checked("rmdir", path, input)} :
       \E r \in {IF e1.res = "allow" THEN rmdir_store(path) ELSE Fail(e1.res)} :
       \E e \in {IF e1.res = "allow" /\ r.err # "OK"
                 THEN [e1 EXCEPT !.rules = allow_rules] ELSE e1} :
          Finish("rmdir", path, path, 0, 0, <<>>, e, r)

rmdir(path, input) ==
    /\ Callable
    /\ \E e \in {Checked("rmdir", path, input)} :
       \E r \in {IF e.res = "allow" THEN rmdir_store(path) ELSE Fail(e.res)} :
          Finish("rmdir", path, path, 0, 0, <<>>, e, r)

unlink(path, input) ==
    /\ Callable
    /\ \E e \in {Checked("unlink", path, input)} :
       \E r \in {IF e.res = "allow" THEN unlink_store(path) ELSE Fail(e.res)} :
          Finish("unlink", path, path, 0, 0, <<>>, e, r)

\* Mutant: the node is moved before the destination is authorized.
rename_moves_first(old, new, input) ==
    /\ Callable
    /\ \E e1 \in {Checked("rename", old, input)} :
       \E r1 \in {IF e1.res = "allow" THEN rename_store(old, new) ELSE Fail(e1.res)} :
       \E e \in {IF e1.res = "allow" THEN check_and_prompt(e1, "rename", new) ELSE e1} :
       \E r \in {IF e.res = "allow" THEN r1 ELSE [r1 EXCEPT !.err = e.res]} :
          Finish("rename", old, new, 0, 0, <<>>, e, r)

\* Mutant: a successful rename moves old's rule to new's key.
rename_carries_rule(old, new, input) ==
    /\ Callable
    /\ \E e1 \in {Checked("rename", old, input)} :
       \E e2 \in {IF e1.res = "allow" THEN check_and_prompt(e1, "rename", new) ELSE e1} :
       \E r \in {IF e2.res = "allow" THEN rename_store(old, new) ELSE Fail(e2.res)} :
       \E e \in {IF r.err = "OK" /\ rule_key("rename", old) \in DOMAIN e2.rules
                 THEN [e2 EXCEPT !.rules =
                          Put(Del(@, rule_key("rename", old)), rule_key("rename", new),
                              e2.rules[rule_key("rename", old)])]
                 ELSE e2} :
          Finish("rename", old, new, 0, 0, <<>>, e, r)

rename(old, new, input) ==
    /\ Callable
    /\ \E e1 \in {Checked("rename", old, input)} :
       \E e \in {IF e1.res = "allow" THEN check_and_prompt(e1, "rename", new) ELSE e1} :
       \E r \in {IF e.res = "allow" THEN rename_store(old, new) ELSE Fail(e.res)} :
          Finish("rename", old, new, 0, 0, <<>>, e, r)

open(path, input) ==
    /\ Callable
    /\ \E e \in {Checked("open", path, input)} :
       \E r \in {IF e.res = "allow" THEN lookup_store(path) ELSE Fail(e.res)} :
          Finish("open", path, path, 0, 0, <<>>, e, r)

create(path, input) ==
    /\ Callable
    /\ \E e \in {Checked("create", path, input)} :
       \E r \in {IF e.res = "allow" THEN create_store(path) ELSE Fail(e.res)} :
          Finish("create", path, path, 0, 0, <<>>, e, r)

read(path, size, offset, input) ==
    /\ Callable
    /\ \E e \in {Checked("read", path, input)} :
       \E r \in {IF e.res = "allow" THEN read_store(path, size, offset) ELSE Fail(e.res)} :
          Finish("read", path, path, offset, size, <<>>, e, r)

write(path, data, offset, input) ==
    /\ Callable
    /\ \E e \in {Checked("write", path, input)} :
       \E r \in {IF e.res = "allow" THEN write_store(path, data, offset) ELSE Fail(e.res)} :
          Finish("write", path, path, offset, Len(data), data, e, r)

truncate(path, length, input) ==
    /\ Callable
    /\ \E e \in {Checked("truncate", path, input)} :
       \E r \in {IF e.res = "allow" THEN truncate_store(path, length) ELSE Fail(e.res)} :
          Finish("truncate", path, path, 0, length, <<>>, e, r)

utimens(path, input) ==
    /\ Callable
    /\ \E e \in {Checked("utimens", path, input)} :
       \E r \in {IF e.res = "allow" THEN lookup_store(path) ELSE Fail(e.res)} :
          Finish("utimens", path, path, 0, 0, <<>>, e, r)

chmod(path, input) ==
    /\ Callable
    /\ \E e \in {Checked("chmod", path, input)} :
       \E r \in {IF e.res = "allow" THEN lookup_store(path) ELSE Fail(e.res)} :
          Finish("chmod", path, path, 0, 0, <<>>, e, r)

chown(path, input) ==
    /\ Callable
    /\ \E e \in {Checked("chown", path, input)} :
       \E r \in {IF e.res = "allow" THEN lookup_store(path) ELSE Fail(e.res)} :
          Finish("chown", path, path, 0, 0, <<>>, e, r)

\* Mutant: statfs asks for authorization like the other handlers.
statfs_checked(path) ==
    /\ Callable
    /\ \E e \in {Checked("statfs", path, <<>>)} :
       \E r \in {IF e.res = "allow" THEN statfs_store ELSE Fail(e.res)} :
          Finish("statfs", path, path, 0, 0, <<>>, e, r)

\* statfs logs and answers; it makes no check.
statfs(path) ==
    /\ Callable
    /\ \E e \in {[Engine(<<>>) EXCEPT !.log = <<(<<"statfs", path>>)>>]} :
          Finish("statfs", path, path, 0, 0, <<>>, e, statfs_store)

\* The clock advances between invocations.
Tick ==
    /\ now < MaxTime
    /\ now' = now + 1
    /\ UNCHANGED <<files, heap, used, capacity, ask, ask_scope, global_allow_all,
                   allow_rules, last, budget>>

(***************************************************************************)
(* CanaryFS.__init__                                                       *)
(***************************************************************************)
NoCall ==
    [op |-> "init", path |-> Root, new |-> Root, offset |-> 0, size |-> 0,
     data |-> <<>>, err |-> "OK", ret |-> <<>>, checks |-> <<>>, log |-> <<>>]

Construct(cap, askv, scope, calls) ==
    /\ budget = calls
    /\ capacity = cap
    /\ ask = askv
    /\ ask_scope = scope
    /\ global_allow_all = FALSE
    /\ used = 0
    /\ files = (Root :> 1)
    /\ heap = (1 :> Node(TRUE))
    /\ allow_rules = EmptyDict
    /\ now = 0
    /\ last = NoCall

(***************************************************************************)
(* Inputs                                                                  *)
(***************************************************************************)
Names == {"a", "b"}

PathsTo(depth) == UNION {[1..n -> Names] : n \in 0..depth}

\* stdin: up to n lines, each one of `answers`.  A handler reads at most one
\* line per check unless a line is malformed.
Scripts(answers, n) == UNION {[1..k -> answers] : k \in 0..n}

(***************************************************************************)
(* SpecTree: the tree operations with prompting off, over non-root paths   *)
(* two levels deep, in runs of MaxCalls invocations.                       *)
(***************************************************************************)
TreeCapacity == 2

\* "/a", "/b", "/a/a", "/b/a"
TreePaths == {p \in PathsTo(2) : p # Root /\ (Len(p) = 2 => p[2] = "a")}

InitTree == Construct(TreeCapacity, FALSE, "op", <<MaxCalls>>)

NextTree ==
    \/ \E p \in TreePaths : mkdir(p, <<>>)
    \/ \E p \in TreePaths : rmdir(p, <<>>)
    \/ \E p \in TreePaths : unlink(p, <<>>)
    \/ \E p \in TreePaths, q \in TreePaths : rename(p, q, <<>>)
    \/ \E p \in TreePaths : create(p, <<>>)
    \/ \E p \in TreePaths : write(p, <<1>>, 0, <<>>)

SpecTree == InitTree /\ [][NextTree]_vars

(***************************************************************************)
(* SpecData: file contents with prompting off: two files under the root,   *)
(* written, read, resized and removed.                                     *)
(***************************************************************************)
DataCapacity == 2  \* capacity the store is constructed with
MaxOffset == 2     \* offsets written and read at; truncate lengths to MaxOffset + 1

DataPaths == {p \in PathsTo(1) : p # Root}

\* What a write carries; a read asks for as many bytes as one of them holds.
Buffers == {<<>>, <<1>>, <<1, 2>>}

Sizes == {Len(b) : b \in Buffers}

InitData == Construct(DataCapacity, FALSE, "op", <<>>)

NextData ==
    \/ \E p \in DataPaths : create(p, <<>>)
    \/ \E p \in DataPaths : unlink(p, <<>>)
    \/ \E p \in DataPaths, n \in Sizes, o \in 0..MaxOffset : read(p, n, o, <<>>)
    \/ \E p \in DataPaths, d \in Buffers, o \in 0..MaxOffset : write(p, d, o, <<>>)
    \/ \E p \in DataPaths, n \in 0..(MaxOffset + 1) : truncate(p, n, <<>>)

SpecData == InitData /\ [][NextData]_vars

(***************************************************************************)
(* SpecGate: every checked operation with prompting on, each prompt        *)
(* answered y, n or N (or left at end of file), so that no rule is stored. *)
(***************************************************************************)
GatePaths == {p \in PathsTo(1) : p # Root}

GateAnswers == {<<"y">>, <<"n">>, <<"N">>}

InitGate == Construct(TreeCapacity, TRUE, "op", <<>>)

NextGate ==
    \/ \E p \in GatePaths, i \in Scripts(GateAnswers, 1) : access(p, i)
    \/ \E p \in GatePaths, i \in Scripts(GateAnswers, 1) : getattr(p, i)
    \/ \E p \in GatePaths, i \in Scripts(GateAnswers, 1) : readdir(p, i)
    \/ \E p \in GatePaths, i \in Scripts(GateAnswers, 1) : mkdir(p, i)
    \/ \E p \in GatePaths, i \in Scripts(GateAnswers, 1) : rmdir(p, i)
    \/ \E p \in GatePaths, i \in Scripts(GateAnswers, 1) : unlink(p, i)
    \/ \E p \in GatePaths, q \in GatePaths, i \in Scripts(GateAnswers, 2) : rename(p, q, i)
    \/ \E p \in GatePaths, i \in Scripts(GateAnswers, 1) : open(p, i)
    \/ \E p \in GatePaths, i \in Scripts(GateAnswers, 1) : create(p, i)
    \/ \E p \in GatePaths, i \in Scripts(GateAnswers, 1) : read(p, 1, 0, i)
    \/ \E p \in GatePaths, i \in Scripts(GateAnswers, 1) : write(p, <<1>>, 0, i)
    \/ \E p \in GatePaths, i \in Scripts(GateAnswers, 1) : truncate(p, 0, i)
    \/ \E p \in GatePaths, i \in Scripts(GateAnswers, 1) : utimens(p, i)
    \/ \E p \in GatePaths, i \in Scripts(GateAnswers, 1) : chmod(p, i)
    \/ \E p \in GatePaths, i \in Scripts(GateAnswers, 1) : chown(p, i)

SpecGate == InitGate /\ [][NextGate]_vars

(***************************************************************************)
(* SpecCount: the rule engine with counted allowances, under either scope, *)
(* on an empty tree: read and rename make one and two checks.              *)
(***************************************************************************)
RulePaths == {p \in PathsTo(1) : p # Root}

CountAnswers == {<<"y">>, <<"a">>, <<"A">>, <<"1">>, <<"2">>}

InitCount == \E scope \in {"op", "path"} : Construct(TreeCapacity, TRUE, scope, <<>>)

NextCount ==
    \/ \E p \in RulePaths, i \in Scripts(CountAnswers, 1) : read(p, 1, 0, i)
    \/ \E p \in RulePaths, q \in RulePaths, i \in Scripts(CountAnswers, 2) : rename(p, q, i)

SpecCount == InitCount /\ [][NextCount]_vars

(***************************************************************************)
(* SpecTime: the rule engine with timed allowances and a clock that        *)
(* advances between invocations, under either scope.                       *)
(***************************************************************************)
TimeAnswers == {<<"y">>, <<"n">>, <<"1", "s">>}

InitTime == \E scope \in {"op", "path"} : Construct(TreeCapacity, TRUE, scope, <<>>)

NextTime ==
    \/ \E p \in RulePaths, i \in Scripts(TimeAnswers, 1) : read(p, 1, 0, i)
    \/ \E p \in RulePaths, q \in RulePaths, i \in Scripts(TimeAnswers, 2) : rename(p, q, i)
    \/ Tick

SpecTime == InitTime /\ [][NextTime]_vars

(***************************************************************************)
(* SpecRoot: the tree operations with prompting off, over the root path    *)
(* and the paths directly under it.                                        *)
(***************************************************************************)
RootPaths == PathsTo(1)

InitRoot == Construct(TreeCapacity, FALSE, "op", <<>>)

NextRoot ==
    \/ \E p \in RootPaths : mkdir(p, <<>>)
    \/ \E p \in RootPaths : rmdir(p, <<>>)
    \/ \E p \in RootPaths : unlink(p, <<>>)
    \/ \E p \in RootPaths, q \in RootPaths : rename(p, q, <<>>)
    \/ \E p \in RootPaths : create(p, <<>>)

SpecRoot == InitRoot /\ [][NextRoot]_vars

(***************************************************************************)
(* SpecMove: files created and renamed with prompting on, under either     *)
(* scope, each prompt answered y or with the count 1, or left at end of    *)
(* file.                                                                   *)
(***************************************************************************)
MoveAnswers == {<<"y">>, <<"1">>}

InitMove == \E scope \in {"op", "path"} : Construct(TreeCapacity, TRUE, scope, <<>>)

NextMove ==
    \/ \E p \in RulePaths, i \in Scripts(MoveAnswers, 1) : create(p, i)
    \/ \E p \in RulePaths, q \in RulePaths, i \in Scripts(MoveAnswers, 2) : rename(p, q, i)

SpecMove == InitMove /\ [][NextMove]_vars

(***************************************************************************)
(* SpecParse: the prompt given well-formed and other lines, up to two per  *)
(* check: zero counts, a letter, a digit int() rejects, padded answers.    *)
(***************************************************************************)
ParseAnswers ==
    {<<"y">>, <<"n">>, <<>>, <<" ", "1", " ">>, <<"0">>, <<"0", "s">>, <<"x">>, <<"^2">>}

InitParse == Construct(TreeCapacity, TRUE, "op", <<>>)

NextParse ==
    \/ \E i \in Scripts(ParseAnswers, 1) : create(<<"a">>, i)
    \/ \E p \in RulePaths, i \in Scripts(ParseAnswers, 2) : read(p, 1, 0, i)

SpecParse == InitParse /\ [][NextParse]_vars

(***************************************************************************)
(* SpecStat: statfs between creates and one-byte writes, with prompting on *)
(* and a capacity of StatBlocks blocks and one byte, so that the bytes     *)
(* written cross a block boundary.                                         *)
(***************************************************************************)
StatBlocks == 2

StatCapacity == StatBlocks * BLOCK_SIZE + 1

StatAnswers == {<<"y">>, <<"1">>}

InitStat == Construct(StatCapacity, TRUE, "op", <<>>)

NextStat ==
    \/ \E i \in Scripts(StatAnswers, 1) : create(<<"a">>, i)
    \/ \E o \in 0..1, i \in Scripts(StatAnswers, 1) : write(<<"a">>, <<1>>, o, i)
    \/ \E p \in PathsTo(1) : statfs(p)

SpecStat == InitStat /\ [][NextStat]_vars

(***************************************************************************)
(* SpecQuiet: every checked operation with prompting disabled, while stdin *)
(* holds a line that would deny, grant or set allow-all if it were read.   *)
(***************************************************************************)
QuietAnswers == {<<"n">>, <<"a">>, <<"1">>}

InitQuiet == Construct(TreeCapacity, FALSE, "op", <<>>)

NextQuiet ==
    \/ \E p \in GatePaths, i \in Scripts(QuietAnswers, 1) : access(p, i)
    \/ \E p \in GatePaths, i \in Scripts(QuietAnswers, 1) : getattr(p, i)
    \/ \E p \in GatePaths, i \in Scripts(QuietAnswers, 1) : readdir(p, i)
    \/ \E p \in GatePaths, i \in Scripts(QuietAnswers, 1) : mkdir(p, i)
    \/ \E p \in GatePaths, i \in Scripts(QuietAnswers, 1) : rmdir(p, i)
    \/ \E p \in GatePaths, i \in Scripts(QuietAnswers, 1) : unlink(p, i)
    \/ \E p \in GatePaths, i \in Scripts(QuietAnswers, 1) : open(p, i)
    \/ \E p \in GatePaths, i \in Scripts(QuietAnswers, 1) : create(p, i)
    \/ \E p \in GatePaths, i \in Scripts(QuietAnswers, 1) : utimens(p, i)
    \/ \E p \in GatePaths, i \in Scripts(QuietAnswers, 1) : chmod(p, i)
    \/ \E p \in GatePaths, i \in Scripts(QuietAnswers, 1) : chown(p, i)
    \/ \E p \in GatePaths, q \in GatePaths, i \in Scripts(QuietAnswers, 1) : rename(p, q, i)
    \/ \E p \in GatePaths, i \in Scripts(QuietAnswers, 1) : read(p, 1, 0, i)
    \/ \E p \in GatePaths, i \in Scripts(QuietAnswers, 1) : write(p, <<1>>, 0, i)
    \/ \E p \in GatePaths, i \in Scripts(QuietAnswers, 1) : truncate(p, 0, i)

SpecQuiet == InitQuiet /\ [][NextQuiet]_vars

(***************************************************************************)
(* SpecOrder: operations that fail in the node store, with prompting on    *)
(* under scope "path": /a and /a/a made, removed and written past the      *)
(* capacity, each prompt answered y, n or with the count 2.                *)
(***************************************************************************)
OrderPaths == {<<"a">>, <<"a", "a">>}

OrderAnswers == {<<"y">>, <<"n">>, <<"2">>}

InitOrder == Construct(TreeCapacity, TRUE, "path", <<>>)

NextOrder ==
    \/ \E p \in OrderPaths, i \in Scripts(OrderAnswers, 1) : mkdir(p, i)
    \/ \E p \in OrderPaths, i \in Scripts(OrderAnswers, 1) : create(p, i)
    \/ \E p \in OrderPaths, i \in Scripts(OrderAnswers, 1) : rmdir(p, i)
    \/ \E p \in OrderPaths, i \in Scripts(OrderAnswers, 1) : write(p, <<1>>, capacity, i)

SpecOrder == InitOrder /\ [][NextOrder]_vars

(***************************************************************************)
(* Claims                                                                  *)
(***************************************************************************)
FileNodes == {i \in Range(files) : ~heap[i].is_dir}

RECURSIVE SumSizes(_)
SumSizes(S) ==
    IF S = {} THEN 0
    ELSE LET i == CHOOSE x \in S : TRUE IN heap[i].size + SumSizes(S \ {i})

\* C1: after any sequence of invocations, used equals the sum of the sizes of
\* the file nodes in the path map, every file's size is the length of its
\* buffer, and used <= capacity.
C1_UsedIsSumOfSizes ==
    /\ used = SumSizes(FileNodes)
    /\ \A i \in FileNodes : heap[i].size = Len(heap[i].data)
    /\ used <= capacity

C1_SizeIsLen == \A i \in DOMAIN heap : heap[i].size = Len(heap[i].data)

C1_UsedInCapacity == used <= capacity /\ used >= 0

\* The step is an invocation of `op` that passed its authorization checks.
Authorized(op) == last'.op = op /\ last'.err \notin {"EACCES", "ValueError"}

StoreUnchanged == files' = files /\ heap' = heap /\ used' = used

\* C8: for distinct paths old and new, old resolving and both parents being
\* directories, an authorized rename onto a path that resolves to a file
\* succeeds, new then resolves to the node formerly at old with its content,
\* old no longer resolves and used has decreased by the replaced file's size;
\* onto a path that resolves to a directory it fails with EISDIR and changes
\* nothing in the node store.
C8_RenameOntoExisting ==
    [][(/\ Authorized("rename")
        /\ last'.path # last'.new
        /\ last'.path \in DOMAIN files
        /\ ensure_parent(files, heap, last'.path).err = "OK"
        /\ ensure_parent(files, heap, last'.new).err = "OK"
        /\ last'.new \in DOMAIN files)
       => LET old == last'.path
              new == last'.new
              node == files[old]
              target == files[new]
          IN IF heap[target].is_dir
             THEN last'.err = "EISDIR" /\ StoreUnchanged
             ELSE /\ last'.err = "OK"
                  /\ new \in DOMAIN files'
                  /\ files'[new] = node
                  /\ heap'[node].data = heap[node].data
                  /\ old \notin DOMAIN files'
                  /\ used' = used - heap[target].size]_vars

\* C9: for every path that resolves to a directory, an authorized rmdir fails
\* with ENOTEMPTY iff the directory has a child; otherwise it succeeds, the
\* path no longer resolves, the name is gone from the parent's children and
\* the parent's link count is one less.
C9_Rmdir ==
    [][(/\ Authorized("rmdir")
        /\ last'.path \in DOMAIN files
        /\ heap[files[last'.path]].is_dir)
       => LET path == last'.path
              sp == split(path)
              has_child == DOMAIN heap[files[path]].children # {}
          IN /\ last'.err = "ENOTEMPTY" <=> has_child
             /\ ~has_child =>
                   /\ last'.err = "OK"
                   /\ path \notin DOMAIN files'
                   /\ sp.parent \in DOMAIN files
                   /\ files[sp.parent] \in DOMAIN heap'
                   /\ sp.name \notin DOMAIN heap'[files[sp.parent]].children
                   /\ heap'[files[sp.parent]].nlink = heap[files[sp.parent]].nlink - 1]_vars

\* C2: an authorized write on an existing file fails with ENOSPC exactly when
\* used + max(0, offset + len(data) - size) > capacity; a failed write leaves
\* the file, its size and used as they were; a write that does not grow the
\* file never fails with ENOSPC.
C2_WriteOutOfSpace ==
    [][(/\ Authorized("write")
        /\ last'.path \in DOMAIN files
        /\ ~heap[files[last'.path]].is_dir)
       => LET node == heap[files[last'.path]]
              grow == Max(0, last'.offset + Len(last'.data) - node.size)
          IN /\ last'.err = "ENOSPC" <=> used + grow > capacity
             /\ last'.err = "ENOSPC" => StoreUnchanged
             /\ grow = 0 => last'.err = "OK"]_vars

\* A write was refused for space with the store full, after writes that filled it.
C2_Witness ==
    /\ last.op = "write" /\ last.err = "ENOSPC"
    /\ last.path \in DOMAIN files
    /\ used = capacity
    /\ heap[files[last.path]].size > 0

\* C10: a successful write(path, offset, b) followed by read(path, offset,
\* len(b)) returns b, and any gap between the old end of file and offset reads
\* as zeros; a truncate to a larger length keeps the old content and makes
\* every byte of the extension read as zero.
C10_WriteReadRoundTrip ==
    [][(/\ last'.op \in {"write", "truncate"}
        /\ last'.err = "OK"
        /\ last'.path \in DOMAIN files
        /\ ~heap[files[last'.path]].is_dir)
       => LET path == last'.path
              old == heap[files[path]]
              rd(size, offset) == read_from(files', heap', path, size, offset)
          IN IF last'.op = "write"
             THEN /\ rd(Len(last'.data), last'.offset).err = "OK"
                  /\ rd(Len(last'.data), last'.offset).ret = last'.data
                  /\ last'.offset > old.size =>
                        rd(last'.offset - old.size, old.size).ret
                            = Zeros(last'.offset - old.size)
             ELSE last'.size > old.size =>
                     /\ rd(old.size, 0).ret = old.data
                     /\ rd(last'.size - old.size, old.size).ret
                            = Zeros(last'.size - old.size)
                     /\ rd(last'.size + 1, 0).ret = old.data \o Zeros(last'.size - old.size)]_vars

\* A file that holds non-zero bytes followed by a zero-filled extension was just
\* grown by truncate.
C10_Witness ==
    /\ last.op = "truncate" /\ last.err = "OK"
    /\ last.path \in DOMAIN files
    /\ LET d == heap[files[last.path]].data
       IN Len(d) = last.size /\ Len(d) >= 2 /\ d[1] # 0 /\ d[Len(d)] = 0

(***************************************************************************)
(* The rule engine, read off the checks an invocation made.                *)
(***************************************************************************)
\* The step is an invocation: the clock stands still while a handler runs.
Invocation == now' = now

\* The key the configured scope gives a check.
ScopeKey(c) == IF ask_scope = "path" THEN <<"*", c.path>> ELSE <<c.op, c.path>>

\* The check asked the user, who typed `line` (case and blanks aside).
Typed(c, line) == c.prompts >= 1 /\ ~c.eof /\ lower(strip(c.ans)) = line

\* The check asked the user, who typed a count / a number of seconds.
IsCount(c) == c.prompts >= 1 /\ ~c.eof /\ isdigit(strip(c.ans)) /\ int_ok(strip(c.ans))

CountOf(c) == int(strip(c.ans))

IsSeconds(c) ==
    /\ c.prompts >= 1 /\ ~c.eof /\ endswith_s(strip(c.ans))
    /\ isdigit(butlast(strip(c.ans))) /\ int_ok(butlast(strip(c.ans)))

SecondsOf(c) == int(butlast(strip(c.ans)))

\* The rule a prompted check leaves under its key: the one its answer grants.
Granted(c) ==
    IF IsSeconds(c) THEN {Rule(now + SecondsOf(c), None)}
    ELSE IF IsCount(c) THEN {Rule(None, CountOf(c))}
    ELSE {}

\* A table with the key's entry replaced.
WithEntry(t, key, ent) ==
    IF ent = {} THEN Del(t, key) ELSE Put(t, key, CHOOSE r \in ent : TRUE)

\* The rule table as the i-th check of the step found it (a handler makes at
\* most two checks) and as the step's checks leave it.
TableBefore(i) ==
    IF i = 1 THEN allow_rules
    ELSE WithEntry(allow_rules, ScopeKey(last'.checks[1]), last'.checks[1].after)

TableAfter ==
    LET n == Len(last'.checks)
    IN IF n = 0 THEN allow_rules
       ELSE WithEntry(TableBefore(n), ScopeKey(last'.checks[n]), last'.checks[n].after)

\* Allow-all was set when the i-th check of the step began.
AllowAllBefore(i) ==
    global_allow_all \/ \E j \in 1..(i - 1) : Typed(last'.checks[j], <<"a">>)

\* C7: a prompt answered n/N makes the operation fail with EACCES and leaves
\* the node store (path map, children, contents, sizes, link counts, used) as
\* it was; rename changes the store only after both its check for old and its
\* check for new were approved.
C7_DenialLeavesStore ==
    [][/\ (\E i \in 1..Len(last'.checks) : Typed(last'.checks[i], <<"n">>))
             => last'.err = "EACCES" /\ StoreUnchanged
       /\ (last'.op = "rename" /\ ~StoreUnchanged)
             => /\ Len(last'.checks) = 2
                /\ \A i \in 1..2 : last'.checks[i].res = "allow"]_vars

\* A rename of an existing file was approved for its source and denied for its
\* destination, and the file is still where it was.
C7_Witness ==
    /\ last.op = "rename" /\ last.err = "EACCES" /\ last.path # last.new
    /\ Len(last.checks) = 2
    /\ last.checks[1].res = "allow"
    /\ Typed(last.checks[2], <<"n">>)
    /\ last.path \in DOMAIN files /\ ~heap[files[last.path]].is_dir
    /\ last.new \notin DOMAIN files

\* C3: with prompting on and allow-all unset, a prompt answered with a count
\* N >= 1 approves the invocation and stores N under the check's key; a check
\* whose key holds a count r >= 1 is approved without prompting and leaves
\* r - 1; a check whose key holds the count 0 removes the rule and prompts.
\* So N further checks pass unprompted and the (N+1)-th prompts.
C3_CountGrant ==
    [][(Invocation /\ ask) =>
         \A i \in 1..Len(last'.checks) :
            LET c == last'.checks[i]
                b == entry(TableBefore(i), ScopeKey(c))
            IN ~AllowAllBefore(i) =>
                 /\ (IsCount(c) /\ CountOf(c) >= 1)
                       => c.res = "allow" /\ c.after = {Rule(None, CountOf(c))}
                 /\ \A r \in b : (r.expires_at = None /\ r.remaining # None) =>
                       IF r.remaining >= 1
                       THEN /\ c.prompts = 0 /\ c.res = "allow"
                            /\ c.after = {Rule(None, r.remaining - 1)}
                       ELSE c.prompts >= 1 /\ c.after = Granted(c)]_vars

\* A read found its key's count used up, dropped the rule and prompted; the
\* answer granted nothing, so the key is left without a rule.
C3_Witness ==
    /\ last.op = "read" /\ ~global_allow_all
    /\ LET c == last.checks[1]
       IN /\ c.found /\ ~c.valid /\ c.prompts >= 1 /\ c.after = {}
          /\ c.key \notin DOMAIN allow_rules

\* C4: a check is approved without prompting by a stored allowance exactly
\* when the table holds a valid rule under the check's own key, which is
\* (op, path) under scope "op" and ("*", path) under scope "path": never a rule
\* of another operation under scope "op", never a rule of another path; and a
\* check touches no entry but its own key's.
C4_RuleKeyScope ==
    [][(Invocation /\ ask) =>
         /\ \A i \in 1..Len(last'.checks) :
               LET c == last'.checks[i]
                   b == entry(TableBefore(i), ScopeKey(c))
                   valid == \E r \in b :
                               IF r.expires_at # None THEN now <= r.expires_at
                               ELSE r.remaining = None \/ r.remaining > 0
               IN ~AllowAllBefore(i) =>
                     (c.prompts = 0 /\ c.res = "allow") <=> valid
         /\ allow_rules' = TableAfter]_vars

\* Under scope "path" a rename from p to another path q found a valid rule for
\* p, whichever operation it was granted to, and none for q, for which it
\* prompted.
C4_Witness ==
    /\ ask_scope = "path" /\ ~global_allow_all
    /\ last.op = "rename" /\ last.path # last.new
    /\ Len(last.checks) = 2
    /\ last.checks[1].valid /\ last.checks[1].prompts = 0
    /\ last.checks[1].key = <<"*", last.path>>
    /\ ~last.checks[2].found /\ last.checks[2].prompts >= 1

\* C5: allow-all starts unset, is set only by a prompt answered a/A, and is
\* never unset; while it is set every check is approved without a prompt and
\* without a lookup, and the rule table stays as it is.
C5_AllowAllOneWay ==
    /\ ~global_allow_all
    /\ [][/\ global_allow_all => global_allow_all'
          /\ Invocation =>
               /\ global_allow_all' <=>
                     (global_allow_all
                      \/ \E i \in 1..Len(last'.checks) : Typed(last'.checks[i], <<"a">>))
               /\ \A i \in 1..Len(last'.checks) :
                     AllowAllBefore(i) =>
                        LET c == last'.checks[i]
                        IN /\ ~c.lookup /\ c.prompts = 0 /\ c.res = "allow"
                           /\ c.after = entry(TableBefore(i), ScopeKey(c))
               /\ global_allow_all =>
                     /\ allow_rules' = allow_rules
                     /\ last'.err \notin {"EACCES", "ValueError"}]_vars

\* With allow-all set and a used-up count still stored under the key, a read
\* went unprompted and the rule is still there.
C5_Witness ==
    /\ global_allow_all /\ last.op = "read"
    /\ last.checks[1].prompts = 0 /\ ~last.checks[1].lookup
    /\ last.checks[1].key \in DOMAIN allow_rules
    /\ allow_rules[last.checks[1].key] = Rule(None, 0)

\* C6: with prompting on and allow-all unset, a prompt answered <N>s at time
\* t approves the invocation and stores the expiry t + N under the check's
\* key; a check whose key holds an expiry not yet passed (now <= expiry) is
\* approved without prompting and leaves the rule as it is; a check whose key
\* holds a passed expiry removes the rule and prompts.
C6_TimeGrant ==
    [][(Invocation /\ ask) =>
         \A i \in 1..Len(last'.checks) :
            LET c == last'.checks[i]
                b == entry(TableBefore(i), ScopeKey(c))
            IN ~AllowAllBefore(i) =>
                 /\ IsSeconds(c)
                       => c.res = "allow" /\ c.after = {Rule(now + SecondsOf(c), None)}
                 /\ \A r \in b : r.expires_at # None =>
                       IF now <= r.expires_at
                       THEN c.prompts = 0 /\ c.res = "allow" /\ c.after = {r}
                       ELSE c.prompts >= 1 /\ c.after = Granted(c)]_vars

\* A rename whose source key holds a rule expiring at this very instant, used
\* unprompted and kept, and whose destination key held an expired rule, which
\* was removed before the prompt.
C6_Witness ==
    /\ last.op = "rename" /\ Len(last.checks) = 2
    /\ last.checks[1].valid /\ last.checks[1].prompts = 0
    /\ last.checks[1].after = {Rule(now, None)}
    /\ last.checks[2].found /\ ~last.checks[2].valid
    /\ last.checks[2].prompts >= 1 /\ last.checks[2].after = {}

\* C11: an invocation that ends in a failure, of whatever kind, leaves the
\* node store (path map, children, contents, sizes, link counts, used) as it
\* was before the invocation.
C11_FailureIsAtomic ==
    [][last'.err # "OK" => StoreUnchanged]_vars

\* The directories among the children of directory i.
SubDirs(i) == {n \in DOMAIN heap[i].children : heap[heap[i].children[n]].is_dir}

\* C12: after any sequence of mkdir, rmdir, create, unlink and rename, every
\* directory's link count is 2 plus the number of directories among its
\* children.
C12_LinkCount ==
    \A i \in DOMAIN heap :
       heap[i].is_dir => heap[i].nlink = 2 + Cardinality(SubDirs(i))

\* The non-root paths the tree of SpecTree can name: its paths and their children.
TreeSpace == PathsTo(3) \ {Root}

\* dirname(P) resolves to a directory whose children map basename(P) to n.
ChildOfParent(P, n) ==
    LET sp == split(P)
    IN /\ sp.parent \in DOMAIN files
       /\ heap[files[sp.parent]].is_dir
       /\ sp.name \in DOMAIN heap[files[sp.parent]].children
       /\ heap[files[sp.parent]].children[sp.name] = n

\* The (directory, name) pairs under which node n is a child.
ParentLinks(n) ==
    {<<i, c>> \in (DOMAIN heap) \X Names :
        c \in DOMAIN heap[i].children /\ heap[i].children[c] = n}

\* C13: the path map and the children mappings describe one tree: a non-root
\* path resolves to n iff its dirname resolves to a directory whose children
\* map its basename to n; every non-root node is the child of exactly one
\* directory, and no node is among its own descendants.
C13_PathMapIsTree ==
    /\ \A P \in TreeSpace : \A n \in DOMAIN heap :
          (P \in DOMAIN files /\ files[P] = n) <=> ChildOfParent(P, n)
    /\ \A n \in DOMAIN heap :
          n # files[Root] => Cardinality(ParentLinks(n)) = 1
    /\ \A n \in DOMAIN heap :
          n \notin Reach(heap, Range(heap[n].children), MaxNodes + 1)

\* C14: the root path always resolves, and to the directory node made when
\* the store was constructed, whatever paths the operations are given.
C14_RootIsFixed ==
    /\ Root \in DOMAIN files
    /\ files[Root] = 1
    /\ heap[files[Root]].is_dir

\* C15: the rule table after a rename is the table its two checks left: the
\* move of the node carries no rule from old's key to new's key.  A rule under
\* old's key that neither check touched is still there, and any check
\* approved without a prompt found a rule under its own key.
C15_NoCarryOver ==
    [][(last'.op = "rename" /\ last'.err = "OK") =>
         LET c1 == last'.checks[1]
             c2 == last'.checks[2]
         IN /\ Len(last'.checks) = 2
            /\ \A k \in (DOMAIN allow_rules) \cup (DOMAIN allow_rules') :
                  k \notin {ScopeKey(c1), ScopeKey(c2)}
                     => entry(allow_rules', k) = entry(allow_rules, k)
            /\ entry(allow_rules', ScopeKey(c2)) = c2.after
            /\ ScopeKey(c1) # ScopeKey(c2)
                  => entry(allow_rules', ScopeKey(c1)) = c1.after
            /\ (c2.prompts = 0 /\ ~global_allow_all)
                  => ScopeKey(c2) \in DOMAIN TableBefore(2)]_vars

\* A file was moved from old to new by a rename whose prompt for old was
\* answered with a count: the rule is under old's key, whose path no longer
\* resolves, and new's key has none.
C15_Witness ==
    /\ last.op = "rename" /\ last.err = "OK" /\ last.path # last.new
    /\ last.new \in DOMAIN files /\ last.path \notin DOMAIN files
    /\ last.checks[1].key \in DOMAIN allow_rules
    /\ last.checks[2].key \notin DOMAIN allow_rules
    /\ last.checks[2].prompts >= 1

\* A decimal numeral of a positive integer.
PositiveNumeral(a) ==
    a # <<>> /\ (\A i \in 1..Len(a) : a[i] \in AsciiDigits) /\ int(a) >= 1

\* The responses the prompt accepts: empty, y, n, a, <N>s and <N> with N >= 1.
WellFormed(a) ==
    \/ a = <<>>
    \/ lower(a) \in {<<"y">>, <<"n">>, <<"a">>}
    \/ PositiveNumeral(a)
    \/ a # <<>> /\ a[Len(a)] = "s" /\ PositiveNumeral(butlast(a))

\* C16: a response outside the accepted ones (0 and 0s among them) makes the
\* prompt ask again, so the response that decides a check is an accepted one
\* and the invocation does not end in an exception of the parser; a check
\* decided by empty, y/Y or n/N leaves no rule under its key; and every rule
\* in the table has exactly one of an expiry and a remaining count.
C16_MalformedReprompts ==
    [][/\ \A i \in 1..Len(last'.checks) :
            LET c == last'.checks[i]
            IN (c.prompts >= 1 /\ ~c.eof) =>
                 /\ WellFormed(strip(c.ans))
                 /\ c.res # "ValueError"
                 /\ (strip(c.ans) = <<>> \/ lower(strip(c.ans)) \in {<<"y">>, <<"n">>})
                       => c.after = {}
       /\ \A k \in DOMAIN allow_rules' :
            (allow_rules'[k].expires_at = None) # (allow_rules'[k].remaining = None)]_vars

\* C17: statfs makes no authorization check in any state: it never prompts
\* and never fails, logs one event, leaves the node store, the rule table and
\* the allow-all flag as they were, and reports capacity div BLOCK_SIZE total
\* blocks and (capacity - used) div BLOCK_SIZE free blocks.
C17_StatfsUnchecked ==
    [][last'.op = "statfs" =>
         /\ last'.checks = <<>>
         /\ last'.err = "OK"
         /\ last'.log = <<(<<"statfs", last'.path>>)>>
         /\ StoreUnchanged
         /\ allow_rules' = allow_rules
         /\ global_allow_all' = global_allow_all
         /\ last'.ret[2] = capacity \div BLOCK_SIZE
         /\ last'.ret[3] = (capacity - used) \div BLOCK_SIZE]_vars

\* statfs answered with prompting on, allow-all unset, a rule in the table and
\* enough bytes written to take a block off the free count.
C17_Witness ==
    /\ last.op = "statfs" /\ last.err = "OK"
    /\ ask /\ ~global_allow_all /\ allow_rules # EmptyDict
    /\ used > 1
    /\ last.ret[3] < last.ret[2]

\* The log events a checked handler emits: one per check, with the
\* operation name and the path checked.
ExpectedLog(call) ==
    IF call.op = "rename" THEN <<(<<"rename", call.path>>), (<<"rename", call.new>>)>>
    ELSE <<(<<call.op, call.path>>)>>

\* C18: with prompting disabled at construction no invocation prompts, reads
\* the rule table or fails with EACCES; the rule table stays empty and the
\* allow-all flag unset; each check is still logged with its operation and path.
C18_AskDisabled ==
    /\ (~ask => allow_rules = EmptyDict /\ ~global_allow_all)
    /\ [][~ask =>
            /\ \A i \in 1..Len(last'.checks) :
                  /\ last'.checks[i].prompts = 0
                  /\ ~last'.checks[i].lookup
                  /\ last'.checks[i].res = "allow"
            /\ last'.err \notin {"EACCES", "ValueError"}
            /\ allow_rules' = EmptyDict
            /\ ~global_allow_all'
            /\ last'.log = ExpectedLog(last')]_vars

\* With prompting disabled a rename moved a file: both checks were logged,
\* neither prompted, and nothing was stored.
C18_Witness ==
    /\ ~ask /\ last.op = "rename" /\ last.err = "OK" /\ last.path # last.new
    /\ last.log = <<(<<"rename", last.path>>), (<<"rename", last.new>>)>>
    /\ Len(last.checks) = 2
    /\ allow_rules = EmptyDict /\ ~global_allow_all

\* The errors of the node store.
StoreErrors == {"ENOENT", "ENOTDIR", "EISDIR", "EEXIST", "ENOTEMPTY", "ENOSPC"}

\* C19: the check comes before the node store is looked at: every checked
\* invocation makes its check whatever the path resolves to, a denied check
\* ends it with EACCES also when the path does not resolve, and a check
\* approved by a counted rule leaves the count one less in the table also
\* when the operation then fails with an error of the node store.
C19_CheckPrecedesStore ==
    [][(ask /\ ~global_allow_all') =>
         /\ Len(last'.checks) >= 1
         /\ (\E i \in 1..Len(last'.checks) : last'.checks[i].res = "EACCES")
               <=> last'.err = "EACCES"
         /\ \A i \in 1..Len(last'.checks) :
               LET c == last'.checks[i]
                   b == entry(TableBefore(i), ScopeKey(c))
               IN /\ (b = {} /\ Typed(c, <<"n">>)) => last'.err = "EACCES"
                  /\ \A r \in b : (r.expires_at = None /\ r.remaining # None
                                      /\ r.remaining >= 1) =>
                        /\ c.res = "allow"
                        /\ (i = Len(last'.checks)) =>
                              entry(allow_rules', ScopeKey(c)) = {Rule(None, r.remaining - 1)}]_vars

\* A write approved by the last use of a counted rule was refused for space:
\* the rule is left with no use remaining.
C19_Witness ==
    /\ last.op = "write" /\ last.err = "ENOSPC"
    /\ last.checks[1].valid /\ last.checks[1].prompts = 0
    /\ last.checks[1].key \in DOMAIN allow_rules
    /\ allow_rules[last.checks[1].key] = Rule(None, 0)

\* C20: a prompt that finds stdin at end of file, at once or after lines it
\* did not accept, ends the check as the answer n does: the invocation fails
\* with EACCES, the key is left without a rule, the allow-all flag and the
\* node store are unchanged, and the rule table and the flag are the ones the
\* same call leaves when its prompt is answered n.
C20_EofFailsClosed ==
    [][\A i \in 1..Len(last'.checks) :
          LET c == last'.checks[i]
          IN c.eof =>
               /\ c.prompts \in 1..3
               /\ c.res = "EACCES"
               /\ last'.err = "EACCES"
               /\ c.after = {}
               /\ ScopeKey(c) \notin DOMAIN allow_rules'
               /\ global_allow_all' = global_allow_all
               /\ StoreUnchanged
               /\ LET n == Checked(last'.op, last'.path, <<(<<"n">>)>>)
                  IN c.prompts = 1 =>
                       /\ n.res = "EACCES"
                       /\ n.rules = allow_rules'
                       /\ n.allow_all = global_allow_all']_vars

\* A read of an existing file found a used-up rule under its key, dropped it,
\* prompted, did not accept the line it read and then met end of file: the
\* read was denied and the key has no rule.
C20_Witness ==
    /\ last.op = "read" /\ last.err = "EACCES"
    /\ last.path \in DOMAIN files
    /\ last.checks[1].eof /\ last.checks[1].prompts = 2
    /\ last.checks[1].found /\ ~last.checks[1].valid
    /\ last.checks[1].key \notin DOMAIN allow_rules

====
